---- MODULE Spec2Model ----
(***************************************************************************)
(* HabitIQ: the note collection of the page (src/app/page.tsx), the note   *)
(* editor (src/components/notes-manager.tsx) and the reminder extractor    *)
(* with its string similarity (src/components/smart-reminders.tsx).        *)
(*                                                                         *)
(* A JavaScript string is a sequence of one-character strings, so that     *)
(* charAt, substring, trim, toLowerCase and the regular expressions are    *)
(* computed character by character.  JavaScript indices are 0-based; the   *)
(* sequences here are 1-based, and a "position" p is the JavaScript        *)
(* index p - 1.                                                            *)
(***************************************************************************)
EXTENDS Integers, Sequences, FiniteSets, TLC

(***************************************************************************)
(* Bounds of the model.                                                    *)
(***************************************************************************)
\* longest string given to similarity in SimSpec
MaxStrLen == 3
\* most notes in an input of ExtractSpec
MaxInput == 2
\* most notes held by the page in Spec
MaxNotes == 2
\* last value of the millisecond clock (Date.now()) in Spec
MaxClock == 2
\* recognition sessions alive at one time
MaxSessions == 1

(***************************************************************************)
(* Characters and strings.                                                 *)
(***************************************************************************)
\* the value of a missing property (note.transcript, suggestedTime): it is
\* no sequence of characters
Undefined == <<"undefined">>

UpperCase == <<"A","B","C","D","E","F","G","H","I","J","K","L","M","N","O","P","Q","R","S","T","U","V","W","X","Y","Z">>
LowerCase == <<"a","b","c","d","e","f","g","h","i","j","k","l","m","n","o","p","q","r","s","t","u","v","w","x","y","z">>

\* one character of String.prototype.toLowerCase
LowerChar(c) ==
    IF \E k \in 1..Len(UpperCase) : UpperCase[k] = c
    THEN LowerCase[CHOOSE k \in 1..Len(UpperCase) : UpperCase[k] = c]
    ELSE c

\* String.prototype.toLowerCase
toLowerCase(s) == [k \in 1..Len(s) |-> LowerChar(s[k])]

\* the characters the regular expression class \s matches
IsSpace(c) == c \in {" ", "\t", "\n", "\r"}

\* the characters the regular expression . does not match
IsLineTerminator(c) == c \in {"\n", "\r"}

\* String.prototype.substring(from, to), JavaScript indices, to >= from >= 0
substring(s, from, to) ==
    LET b == IF to > Len(s) THEN Len(s) ELSE to
    IN  IF from >= b THEN <<>> ELSE SubSeq(s, from + 1, b)

\* String.prototype.trim
trim(s) ==
    LET keep == {k \in 1..Len(s) : ~IsSpace(s[k])}
    IN  IF keep = {} THEN <<>>
        ELSE SubSeq(s, CHOOSE k \in keep : \A m \in keep : k <= m,
                       CHOOSE k \in keep : \A m \in keep : k >= m)

\* word occurs in s at position p, compared as written
StartsAt(s, p, word) ==
    /\ p >= 1
    /\ p + Len(word) - 1 <= Len(s)
    /\ \A k \in 1..Len(word) : s[p + k - 1] = word[k]

\* word (written in lower case) occurs in s at position p under the flag i
StartsAtIgnoreCase(s, p, word) ==
    /\ p >= 1
    /\ p + Len(word) - 1 <= Len(s)
    /\ \A k \in 1..Len(word) : LowerChar(s[p + k - 1]) = word[k]

\* String.prototype.includes
includes(s, word) == \E p \in 1..(Len(s) + 1) : StartsAt(s, p, word)

\* the least element of a non-empty set of integers
Least(S) == CHOOSE x \in S : \A y \in S : x <= y

\* the index of the first alternative of alts matching s at p under the
\* flag i, 0 when none does
FirstAlternative(s, p, alts) ==
    LET hit == {k \in 1..Len(alts) : StartsAtIgnoreCase(s, p, alts[k])}
    IN  IF hit = {} THEN 0 ELSE Least(hit)

(***************************************************************************)
(* similarity and levenshteinDistance.                                     *)
(***************************************************************************)
\* the minimum without its third argument
Min3OfTwo(a, b, c) == IF a <= b THEN a ELSE b

Min3(a, b, c) == IF a <= b /\ a <= c THEN a ELSE IF b <= c THEN b ELSE c

\* one row i >= 1 of the matrix, filled from column 0 upwards; row[j + 1]
\* is matrix[i][j]
RECURSIVE FillRow(_, _, _, _, _)
FillRow(above, row, i, str1, str2) ==
    LET j == Len(row)
    IN  IF j > Len(str1) THEN row
        ELSE FillRow(above,
                     Append(row,
                            IF str2[i] = str1[j]
                            THEN above[j]
                            ELSE Min3(above[j] + 1, row[j] + 1, above[j + 1] + 1)),
                     i, str1, str2)

\* the matrix row after row: matrix[i + 1] is the row matrix[i] of the
\* code, and the rows 0..Len(matrix) - 1 are filled
RECURSIVE FillMatrix(_, _, _)
FillMatrix(matrix, str1, str2) ==
    LET i == Len(matrix)
    IN  IF i > Len(str2) THEN matrix
        ELSE FillMatrix(Append(matrix, FillRow(matrix[i], <<i>>, i, str1, str2)),
                        str1, str2)

\* return matrix[str2.length][str1.length]
levenshteinDistance(str1, str2) ==
    FillMatrix(<<[j \in 1..(Len(str1) + 1) |-> j - 1]>>, str1, str2)
        [Len(str2) + 1][Len(str1) + 1]

\* a quotient of two integers as JavaScript computes it: num / den, which
\* is NaN when both are 0
Quotient(num, den) == [num |-> num, den |-> den]

IsNaN(q) == q.den = 0 /\ q.num = 0

\* q > n / d for a quotient q with den >= 0; false for NaN
GreaterThan(q, n, d) == q.den > 0 /\ q.num * d > n * q.den

similarity(str1, str2) ==
    LET longer == IF Len(str1) > Len(str2) THEN str1 ELSE str2
        shorter == IF Len(str1) > Len(str2) THEN str2 ELSE str1
        editDistance == levenshteinDistance(longer, shorter)
    IN  Quotient(Len(longer) - editDistance, Len(longer))

\* the cut-off 0.7 of the duplicate filter, as the quotient 7 / 10
ThresholdNum == 7
ThresholdDen == 10

(***************************************************************************)
(* The regular expressions of reminderPatterns, all with the flags g and   *)
(* i.  A match is the record of what exec returns: index (JavaScript       *)
(* index of match[0]), length (of match[0]) and group (match[1]).          *)
(***************************************************************************)
NoMatch == [ok |-> FALSE, index |-> 0, length |-> 0, group |-> Undefined]

\* (?:remind me to|remember to|need to|have to|should|must|don't forget to)
TriggerPhrases == <<
    <<"r","e","m","i","n","d"," ","m","e"," ","t","o">>,
    <<"r","e","m","e","m","b","e","r"," ","t","o">>,
    <<"n","e","e","d"," ","t","o">>,
    <<"h","a","v","e"," ","t","o">>,
    <<"s","h","o","u","l","d">>,
    <<"m","u","s","t">>,
    <<"d","o","n","'","t"," ","f","o","r","g","e","t"," ","t","o">> >>

\* (?:tomorrow|today|later|this week|next week|this month)
TimeWords == <<
    <<"t","o","m","o","r","r","o","w">>,
    <<"t","o","d","a","y">>,
    <<"l","a","t","e","r">>,
    <<"t","h","i","s"," ","w","e","e","k">>,
    <<"n","e","x","t"," ","w","e","e","k">>,
    <<"t","h","i","s"," ","m","o","n","t","h">> >>

\* (exercise|workout|drink|water|call|meeting|appointment|task)
TopicWords == <<
    <<"e","x","e","r","c","i","s","e">>,
    <<"w","o","r","k","o","u","t">>,
    <<"d","r","i","n","k">>,
    <<"w","a","t","e","r">>,
    <<"c","a","l","l">>,
    <<"m","e","e","t","i","n","g">>,
    <<"a","p","p","o","i","n","t","m","e","n","t">>,
    <<"t","a","s","k">> >>

\* the five patterns (head)(?:\s+(?:tail))?
TopicPatterns == <<
  [head |-> <<
            <<"e","x","e","r","c","i","s","e">>,
            <<"w","o","r","k","o","u","t">>,
            <<"g","y","m">>,
            <<"r","u","n">>,
            <<"w","a","l","k">>,
            <<"j","o","g">>,
            <<"s","t","r","e","t","c","h">>,
            <<"y","o","g","a">> >>,
   tail |-> <<
            <<"t","o","m","o","r","r","o","w">>,
            <<"t","o","d","a","y">>,
            <<"l","a","t","e","r">>,
            <<"t","h","i","s"," ","w","e","e","k">> >>],
  [head |-> <<
            <<"d","r","i","n","k">>,
            <<"w","a","t","e","r">>,
            <<"h","y","d","r","a","t","e">> >>,
   tail |-> <<
            <<"m","o","r","e">>,
            <<"e","n","o","u","g","h">>,
            <<"r","e","g","u","l","a","r","l","y">> >>],
  [head |-> <<
            <<"s","l","e","e","p">>,
            <<"b","e","d">>,
            <<"r","e","s","t">> >>,
   tail |-> <<
            <<"e","a","r","l","y">>,
            <<"e","a","r","l","i","e","r">>,
            <<"b","e","t","t","e","r">>,
            <<"e","n","o","u","g","h">> >>],
  [head |-> <<
            <<"m","e","d","i","t","a","t">>,
            <<"m","i","n","d","f","u","l","n","e","s","s">>,
            <<"b","r","e","a","t","h","e">> >>,
   tail |-> <<
            <<"d","a","i","l","y">>,
            <<"r","e","g","u","l","a","r","l","y">> >>],
  [head |-> <<
            <<"r","e","a","d">>,
            <<"s","t","u","d","y">>,
            <<"l","e","a","r","n">> >>,
   tail |-> <<
            <<"m","o","r","e">>,
            <<"d","a","i","l","y">>,
            <<"t","o","n","i","g","h","t">> >>] >>

\* the patterns in the order of the array: 1 the trigger phrases, 2 a time
\* word before a topic word, 3..7 the topic patterns
PatternCount == 2 + Len(TopicPatterns)

\* the first position at or after p that holds no white space
SpaceEnd(s, p) ==
    Least({q \in p..(Len(s) + 1) : q = Len(s) + 1 \/ ~IsSpace(s[q])})

\* (?:\.|$|\n) matches at position q ($ has no flag m: only the end)
Terminator(s, q) == q = Len(s) + 1 \/ s[q] = "." \/ s[q] = "\n"

\* the positions where (.+?) started at position c can end (exclusive)
CaptureEnds(s, c) ==
    {q \in (c + 1)..(Len(s) + 1) :
        /\ \A k \in c..(q - 1) : ~IsLineTerminator(s[k])
        /\ Terminator(s, q)}

\* pattern 1 tried at position p: no trigger phrase is a prefix of another,
\* so at most one alternative matches at p; \s+ is greedy and gives back
\* one character at a time (the capture starts at the greatest c that
\* leads to a match); .+? is lazy (the capture ends at the least q)
MatchTrigger(s, p) ==
    LET a == FirstAlternative(s, p, TriggerPhrases)
    IN  IF a = 0 THEN NoMatch
        ELSE LET j == p + Len(TriggerPhrases[a])
                 e == SpaceEnd(s, j)
                 starts == {c \in (j + 1)..e : CaptureEnds(s, c) # {}}
             IN  IF starts = {} THEN NoMatch
                 ELSE LET c == CHOOSE x \in starts : \A y \in starts : y <= x
                          q == Least(CaptureEnds(s, c))
                          eaten == IF q <= Len(s) THEN 1 ELSE 0
                      IN  [ok |-> TRUE, index |-> p - 1,
                           length |-> q - p + eaten,
                           group |-> SubSeq(s, c, q - 1)]

\* pattern 2 tried at position p: .*? is lazy and does not cross a line
\* terminator
MatchTimeTopic(s, p) ==
    LET a == FirstAlternative(s, p, TimeWords)
    IN  IF a = 0 THEN NoMatch
        ELSE LET j == p + Len(TimeWords[a])
                 at == {r \in j..Len(s) :
                          /\ \A k \in j..(r - 1) : ~IsLineTerminator(s[k])
                          /\ FirstAlternative(s, r, TopicWords) # 0}
             IN  IF at = {} THEN NoMatch
                 ELSE LET r == Least(at)
                          w == TopicWords[FirstAlternative(s, r, TopicWords)]
                      IN  [ok |-> TRUE, index |-> p - 1,
                           length |-> r + Len(w) - p,
                           group |-> SubSeq(s, r, r + Len(w) - 1)]

\* one of the patterns 3..7 tried at position p: the tail is optional and
\* greedy; its words start with a letter, so \s+ keeps all the white space
MatchTopic(s, p, pat) ==
    LET h == FirstAlternative(s, p, pat.head)
    IN  IF h = 0 THEN NoMatch
        ELSE LET j == p + Len(pat.head[h])
                 e == SpaceEnd(s, j)
                 t == IF e > j THEN FirstAlternative(s, e, pat.tail) ELSE 0
             IN  [ok |-> TRUE, index |-> p - 1,
                  length |-> IF t = 0 THEN Len(pat.head[h])
                             ELSE e + Len(pat.tail[t]) - p,
                  group |-> SubSeq(s, p, j - 1)]

\* pattern number n tried at position p
MatchAt(n, s, p) ==
    IF n = 1 THEN MatchTrigger(s, p)
    ELSE IF n = 2 THEN MatchTimeTopic(s, p)
    ELSE MatchTopic(s, p, TopicPatterns[n - 2])

\* RegExp.prototype.exec of pattern n from lastIndex: the leftmost match
exec(n, s, lastIndex) ==
    LET hits == {p \in (lastIndex + 1)..Len(s) : MatchAt(n, s, p).ok}
    IN  IF hits = {} THEN NoMatch ELSE MatchAt(n, s, Least(hits))

\* the matches of the loop while ((match = pattern.exec(text)) !== null),
\* lastIndex moving to the end of each match
RECURSIVE ExecLoop(_, _, _)
ExecLoop(n, s, lastIndex) ==
    LET match == exec(n, s, lastIndex)
    IN  IF ~match.ok THEN <<>>
        ELSE <<match>> \o ExecLoop(n, s, match.index + match.length)

\* the matches of reminderPatterns.forEach from pattern n on
RECURSIVE PatternMatches(_, _)
PatternMatches(n, s) ==
    IF n > PatternCount THEN <<>>
    ELSE ExecLoop(n, s, 0) \o PatternMatches(n + 1, s)

(***************************************************************************)
(* The fields of a candidate reminder.                                     *)
(***************************************************************************)
HighPriorityWords == <<
    <<"u","r","g","e","n","t">>,
    <<"i","m","p","o","r","t","a","n","t">>,
    <<"a","s","a","p">>,
    <<"i","m","m","e","d","i","a","t","e","l","y">>,
    <<"c","r","i","t","i","c","a","l">>,
    <<"d","e","a","d","l","i","n","e">> >>

LowPriorityWords == <<
    <<"m","a","y","b","e">>,
    <<"e","v","e","n","t","u","a","l","l","y">>,
    <<"s","o","m","e","d","a","y">>,
    <<"i","f"," ","p","o","s","s","i","b","l","e">> >>

\* determinePriority with the two tests exchanged
determinePriorityLowFirst(text) ==
    LET lowerText == toLowerCase(text)
    IN  IF \E k \in 1..Len(LowPriorityWords) : includes(lowerText, LowPriorityWords[k])
        THEN "low"
        ELSE IF \E k \in 1..Len(HighPriorityWords) : includes(lowerText, HighPriorityWords[k])
        THEN "high"
        ELSE "medium"

determinePriority(text) ==
    LET lowerText == toLowerCase(text)
    IN  IF \E k \in 1..Len(HighPriorityWords) : includes(lowerText, HighPriorityWords[k])
        THEN "high"
        ELSE IF \E k \in 1..Len(LowPriorityWords) : includes(lowerText, LowPriorityWords[k])
        THEN "low"
        ELSE "medium"

\* the keyword groups of categorizeReminder in the order of its tests
CategoryGroups == <<
  [name |-> "fitness",
   words |-> <<
            <<"e","x","e","r","c","i","s","e">>,
            <<"w","o","r","k","o","u","t">>,
            <<"g","y","m">>,
            <<"r","u","n">>,
            <<"w","a","l","k">>,
            <<"j","o","g">>,
            <<"s","t","r","e","t","c","h">>,
            <<"y","o","g","a">>,
            <<"f","i","t","n","e","s","s">> >>],
  [name |-> "hydration",
   words |-> <<
            <<"d","r","i","n","k">>,
            <<"w","a","t","e","r">>,
            <<"h","y","d","r","a","t","e">> >>],
  [name |-> "sleep",
   words |-> <<
            <<"s","l","e","e","p">>,
            <<"b","e","d">>,
            <<"r","e","s","t">> >>],
  [name |-> "mindfulness",
   words |-> <<
            <<"m","e","d","i","t","a","t">>,
            <<"m","i","n","d","f","u","l","n","e","s","s">>,
            <<"b","r","e","a","t","h","e">> >>],
  [name |-> "learning",
   words |-> <<
            <<"r","e","a","d">>,
            <<"s","t","u","d","y">>,
            <<"l","e","a","r","n">> >>],
  [name |-> "work",
   words |-> <<
            <<"c","a","l","l">>,
            <<"m","e","e","t","i","n","g">>,
            <<"a","p","p","o","i","n","t","m","e","n","t">>,
            <<"w","o","r","k">> >>],
  [name |-> "nutrition",
   words |-> <<
            <<"e","a","t">>,
            <<"m","e","a","l">>,
            <<"f","o","o","d">>,
            <<"c","o","o","k">> >>] >>

\* categorizeReminder returning the last group that matches
categorizeReminderLast(text) ==
    LET lowerText == toLowerCase(text)
        hit == {g \in 1..Len(CategoryGroups) :
                  \E k \in 1..Len(CategoryGroups[g].words) :
                      includes(lowerText, CategoryGroups[g].words[k])}
    IN  IF hit = {} THEN "general"
        ELSE CategoryGroups[CHOOSE g \in hit : \A h \in hit : h <= g].name

categorizeReminder(text) ==
    LET lowerText == toLowerCase(text)
        hit == {g \in 1..Len(CategoryGroups) :
                  \E k \in 1..Len(CategoryGroups[g].words) :
                      includes(lowerText, CategoryGroups[g].words[k])}
    IN  IF hit = {} THEN "general" ELSE CategoryGroups[Least(hit)].name

\* the sources of timePatterns, each tested with the flag i
TimePatterns == <<
    <<"t","o","m","o","r","r","o","w">>,
    <<"t","o","d","a","y">>,
    <<"t","o","n","i","g","h","t">>,
    <<"t","h","i","s"," ","m","o","r","n","i","n","g">>,
    <<"t","h","i","s"," ","a","f","t","e","r","n","o","o","n">>,
    <<"t","h","i","s"," ","e","v","e","n","i","n","g">>,
    <<"t","h","i","s"," ","w","e","e","k">>,
    <<"n","e","x","t"," ","w","e","e","k">>,
    <<"t","h","i","s"," ","m","o","n","t","h">> >>

\* the characters the first replace of extractTimeHint deletes
SpecialChars == {"/", "\\", "^", "$", "*", "+", "?", ".", "(", ")", "|", "[", "]", "{", "}"}

\* String.prototype.replace(c, '') with a string pattern: the first
\* occurrence of the character c is deleted
RemoveFirst(s, c) ==
    LET at == {k \in 1..Len(s) : s[k] = c}
    IN  IF at = {} THEN s
        ELSE SubSeq(s, 1, Least(at) - 1) \o SubSeq(s, Least(at) + 1, Len(s))

extractTimeHint(text) ==
    LET hit == {n \in 1..Len(TimePatterns) :
                  \E p \in 1..Len(text) : StartsAtIgnoreCase(text, p, TimePatterns[n])}
    IN  IF hit = {} THEN Undefined
        ELSE RemoveFirst(SelectSeq(TimePatterns[Least(hit)],
                                   LAMBDA c : c \notin SpecialChars), "i")

\* priorityOrder of the comparator of the final sort
priorityOrder == [high |-> 3, medium |-> 2, low |-> 1]

Digits == <<"0", "1", "2", "3", "4", "5", "6", "7", "8", "9">>

\* Number.prototype.toString of a natural number
RECURSIVE toString(_)
toString(n) ==
    IF n < 10 THEN <<Digits[n + 1]>>
    ELSE toString(n \div 10) \o <<Digits[(n % 10) + 1]>>

(***************************************************************************)
(* VoiceInput: formatAsMarkdown.                                           *)
(***************************************************************************)
\* the characters the regular expression class \w matches
IsWordChar(c) ==
    \/ \E k \in 1..Len(UpperCase) : UpperCase[k] = c
    \/ \E k \in 1..Len(LowerCase) : LowerCase[k] = c
    \/ \E k \in 1..Len(Digits) : Digits[k] = c
    \/ c = "_"

\* \b between the characters p - 1 and p of s
WordBoundary(s, p) ==
    (p - 1 >= 1 /\ p - 1 <= Len(s) /\ IsWordChar(s[p - 1]))
        # (p >= 1 /\ p <= Len(s) /\ IsWordChar(s[p]))

\* the class [.!?]
SentenceEnds == {".", "!", "?"}

\* String.prototype.split(/[.!?]+/): the pieces between the maximal runs
\* of the class, empty pieces included
RECURSIVE SplitSentences(_, _, _, _)
SplitSentences(s, p, piece, pieces) ==
    IF p > Len(s) THEN Append(pieces, piece)
    ELSE IF s[p] \in SentenceEnds
    THEN LET after == {q \in (p + 1)..(Len(s) + 1) :
                          q = Len(s) + 1 \/ s[q] \notin SentenceEnds}
         IN  SplitSentences(s, Least(after), <<>>, Append(pieces, piece))
    ELSE SplitSentences(s, p + 1, Append(piece, s[p]), pieces)

\* sentences.map(sentence => `- ${sentence.trim()}`).join('\n')
RECURSIVE BulletList(_)
BulletList(sentences) ==
    IF sentences = <<>> THEN <<>>
    ELSE <<"-", " ">> \o trim(Head(sentences))
            \o (IF Len(sentences) > 1 THEN <<"\n">> ELSE <<>>)
            \o BulletList(Tail(sentences))

\* String.prototype.replace(/\b(a|b|...)\b/gi, mark + '$1' + mark): the
\* scan from position p on, out being the output so far
RECURSIVE ReplaceWords(_, _, _, _, _)
ReplaceWords(s, p, out, words, mark) ==
    IF p > Len(s) THEN out
    ELSE LET hit == {n \in 1..Len(words) :
                        /\ WordBoundary(s, p)
                        /\ StartsAtIgnoreCase(s, p, words[n])
                        /\ WordBoundary(s, p + Len(words[n]))}
         IN  IF hit = {}
             THEN ReplaceWords(s, p + 1, Append(out, s[p]), words, mark)
             ELSE LET length == Len(words[Least(hit)])
                  IN  ReplaceWords(s, p + length,
                                   out \o mark \o SubSeq(s, p, p + length - 1) \o mark,
                                   words, mark)

\* the four replacements of formatAsMarkdown, in their order
Emphasis == <<
    [words |-> <<<<"t","o","d","o">>, <<"t","o"," ","d","o">>, <<"t","a","s","k">>>>, mark |-> <<"*", "*">>],
    [words |-> <<<<"t","o","m","o","r","r","o","w">>, <<"t","o","d","a","y">>, <<"r","e","m","i","n","d"," ","m","e">>>>, mark |-> <<"*", "*", "*">>],
    [words |-> <<<<"e","x","e","r","c","i","s","e">>, <<"w","o","r","k","o","u","t">>, <<"g","y","m">>, <<"r","u","n">>, <<"w","a","l","k">>>>, mark |-> <<"*">>],
    [words |-> <<<<"w","a","t","e","r">>, <<"d","r","i","n","k">>, <<"h","y","d","r","a","t","e">>>>, mark |-> <<"*">>] >>

RECURSIVE Emphasize(_, _)
Emphasize(formatted, n) ==
    IF n > Len(Emphasis) THEN formatted
    ELSE Emphasize(ReplaceWords(formatted, 1, <<>>, Emphasis[n].words, Emphasis[n].mark),
                   n + 1)

\* new Date().toLocaleString(): the format is the browser's; the model
\* writes the clock in decimal
toLocaleString(now) == toString(now)

formatAsMarkdown(transcript, now) ==
    LET timestamp == toLocaleString(now)
        header == <<"#","#"," ","V","o","i","c","e"," ","N","o","t","e"," ","-"," ">> \o timestamp \o <<"\n", "\n">>
        sentences == SelectSeq(SplitSentences(transcript, 1, <<>>, <<>>),
                               LAMBDA s : trim(s) # <<>>)
    IN  Emphasize(header \o (IF Len(sentences) > 1 THEN BulletList(sentences)
                                                   ELSE transcript), 1)

(***************************************************************************)
(* The inputs of the specifications.                                       *)
(***************************************************************************)
\* the note of the scenario of C12
ExerciseTomorrow == <<"I"," ","n","e","e","d"," ","t","o"," ","e","x","e","r","c","i","s","e"," ","t","o","m","o","r","r","o","w">>

\* the note of the scenario of C13
UrgentCall == <<"u","r","g","e","n","t",":"," ","c","a","l","l"," ","t","h","e"," ","d","o","c","t","o","r"," ","a","s","a","p">>

\* the notes of the scenario of C14
DrinkMoreWater == <<"d","r","i","n","k"," ","m","o","r","e"," ","w","a","t","e","r">>

DrinkWaterMore == <<"d","r","i","n","k"," ","w","a","t","e","r"," ","m","o","r","e">>

\* a body with an urgent and a tentative keyword
CallAsapMaybe == <<"m","u","s","t"," ","c","a","l","l"," ","a","s","a","p"," ","m","a","y","b","e">>

\* a body with keywords of two categories
WalkToWork == <<"n","e","e","d"," ","t","o"," ","w","a","l","k"," ","t","o"," ","w","o","r","k">>

\* a body with a time phrase that holds the letter i
ReadTonight == <<"r","e","a","d"," ","t","o","n","i","g","h","t">>

\* a body whose capture ends with white space
PaddedCapture == <<"m","u","s","t"," ","a","b"," "," ">>

\* the bodies of the notes given to the extractor
ExtractBodies == {
    <<>>,
    <<"s","h","o","u","l","d"," ","r","e","s","t">>,
    <<"s","h","o","u","l","d"," ","t","e","s","t","."," ","s","h","o","u","l","d"," ","t","e","x","t">>,
    <<"m","u","s","t"," ","c","a","l","l"," ","a","s","a","p","."," ","s","h","o","u","l","d"," ","r","e","s","t">>,
    <<"n","e","e","d"," ","t","o"," ","w","a","l","k"," ","m","a","y","b","e">>,
    <<"T","o","d","a","y"," ","D","r","i","n","k"," ","m","o","r","e"," ","w","a","t","e","r">>,
    ExerciseTomorrow, UrgentCall, DrinkMoreWater, DrinkWaterMore,
    CallAsapMaybe, WalkToWork, ReadTonight, PaddedCapture }

\* what the user types into the quick-capture box
QuickNotes == {
    <<"m","u","s","t"," ","r","e","s","t">>,
    <<"m","u","s","t"," ","w","a","l","k">>,
    <<" "," ">> }

\* what the user types into the edit box
EditTexts == {
    <<"m","u","s","t"," ","w","a","l","k">>,
    <<>> }

\* what the recognition service returns as the transcript of a final
\* result
VoiceResults == {
    <<"n","e","e","d"," ","t","o"," ","w","a","l","k">> }

\* finalTranscript after the results of a session
FinalTranscripts == {<<>>} \cup {transcript \o <<" ">> : transcript \in VoiceResults}

\* the transcripts of the voice notes
VoiceBodies ==
    {formatAsMarkdown(trim(finalTranscript), time) :
        finalTranscript \in FinalTranscripts \ {<<>>}, time \in 1..MaxClock}

\* the note bodies that occur in the specifications
KnownTexts == ExtractBodies \cup QuickNotes \cup EditTexts \cup VoiceBodies

(***************************************************************************)
(* extractRemindersFromNotes.                                              *)
(***************************************************************************)
\* note.transcript || note.content: the transcript when it is a non-empty
\* string
NoteText(note) ==
    IF note.transcript # Undefined /\ note.transcript # <<>>
    THEN note.transcript
    ELSE note.content

\* text.toLowerCase() throws a TypeError when text is undefined
Throws(notes) == \E k \in 1..Len(notes) : NoteText(notes[k]) = Undefined

\* match[1] || match[0]
ReminderText(text, match) ==
    IF match.group # Undefined /\ match.group # <<>>
    THEN match.group
    ELSE substring(text, match.index, match.index + match.length)

\* the fields of the pushed object that the note body and the match decide
ReminderFields(text, match) ==
    LET reminderText == ReminderText(text, match)
    IN  [text |-> trim(reminderText),
         extractedFrom |->
             substring(text,
                       IF match.index - 20 > 0 THEN match.index - 20 ELSE 0,
                       match.index + match.length + 20),
         priority |-> determinePriority(reminderText),
         category |-> categorizeReminder(reminderText),
         suggestedTime |-> extractTimeHint(text)]

\* the matches of reminderPatterns on the note bodies of the specification
\* and the fields they give, computed once: the patterns are pure, and no
\* handler writes it
VARIABLE memo

\* the matches of reminderPatterns.forEach on one note body, and the
\* fields each gives
MatchesAndFields(text) ==
    LET matches == PatternMatches(1, text)
    IN  [matches |-> matches,
         fields |-> [k \in 1..Len(matches) |-> ReminderFields(text, matches[k])]]

MemoOf(texts) == [s \in texts |-> MatchesAndFields(s)]

\* reminderPatterns.forEach on the body of a note, read from memo: every
\* note body of the specifications is in KnownTexts
NoteMatches(text) == memo[text]

\* the object pushed for a match, stamped with the time of the run
NewReminderStamped(note, fields, now, random) ==
    [id |-> <<note.id, now, random>>,
     noteId |-> note.id,
     text |-> fields.text,
     extractedFrom |-> fields.extractedFrom,
     priority |-> fields.priority,
     category |-> fields.category,
     suggestedTime |-> fields.suggestedTime,
     isCompleted |-> FALSE,
     isDismissed |-> FALSE,
     createdAt |-> now]

\* the object pushed for a match; random stands for the value of
\* Math.random() in the id
NewReminder(note, fields, now, random) ==
    [id |-> <<note.id, now, random>>,
     noteId |-> note.id,
     text |-> fields.text,
     extractedFrom |-> fields.extractedFrom,
     priority |-> fields.priority,
     category |-> fields.category,
     suggestedTime |-> fields.suggestedTime,
     isCompleted |-> FALSE,
     isDismissed |-> FALSE,
     createdAt |-> note.timestamp]

\* if (reminderText && reminderText.length > 3)
MinTextLength == 3

IsPushed(text, match) ==
    LET reminderText == ReminderText(text, match)
    IN  reminderText # <<>> /\ Len(reminderText) > MinTextLength

\* the pushes of one note, match by match; the calls of Math.random() of
\* one run return distinct values, modelled as the draw of the run paired
\* with the number of the call
RECURSIVE PushMatches(_, _, _, _, _, _, _)
PushMatches(reminders, note, text, found, k, now, draw) ==
    IF k > Len(found.matches) THEN reminders
    ELSE PushMatches(
            IF IsPushed(text, found.matches[k])
            THEN Append(reminders,
                        NewReminder(note, found.fields[k], now,
                                    <<draw, Len(reminders) + 1>>))
            ELSE reminders,
            note, text, found, k + 1, now, draw)

\* notes.forEach(...): the candidates in extraction order
RECURSIVE ForEachNote(_, _, _, _)
ForEachNote(reminders, notes, now, draw) ==
    IF notes = <<>> THEN reminders
    ELSE ForEachNote(
            PushMatches(reminders, Head(notes), NoteText(Head(notes)),
                        NoteMatches(NoteText(Head(notes))), 1, now, draw),
            Tail(notes), now, draw)

\* the filter comparing a candidate with the earlier candidates of its own
\* note only
KeptIndicesWithinNote(reminders) ==
    {i \in 1..Len(reminders) :
        ~\E k \in 1..(i - 1) :
            /\ reminders[k].noteId = reminders[i].noteId
            /\ GreaterThan(similarity(reminders[k].text, reminders[i].text),
                           ThresholdNum, ThresholdDen)}

\* the indices the duplicate filter keeps: no element of
\* reminders.slice(0, index) has a similarity above 0.7
KeptIndices(reminders) ==
    {i \in 1..Len(reminders) :
        ~\E k \in 1..(i - 1) :
            GreaterThan(similarity(reminders[k].text, reminders[i].text),
                        ThresholdNum, ThresholdDen)}

\* Array.prototype.filter: the elements at the indices of keep, in order
FilterByIndex(list, keep) ==
    [n \in 1..Cardinality(keep) |->
        list[CHOOSE i \in keep : Cardinality({k \in keep : k <= i}) = n]]

uniqueReminders(reminders) == FilterByIndex(reminders, KeptIndices(reminders))

\* the comparator with a and b exchanged
ComparePriorityAscending(a, b) == priorityOrder[a.priority] - priorityOrder[b.priority]

\* the comparator of the sort: priorityOrder[b.priority] - priorityOrder[a.priority]
ComparePriority(a, b) == priorityOrder[b.priority] - priorityOrder[a.priority]

\* Array.prototype.sort is stable: an element goes before the first
\* element the comparator puts after it, and after all the others
\* the insertion with the split off by one: sorted[at] is copied
InsertSortedOffByOne(sorted, r) ==
    LET after == {k \in 1..Len(sorted) : ComparePriority(sorted[k], r) > 0}
        at == IF after = {} THEN Len(sorted) + 1 ELSE Least(after)
    IN  SubSeq(sorted, 1, IF at > Len(sorted) THEN Len(sorted) ELSE at)
            \o <<r>> \o SubSeq(sorted, at, Len(sorted))

InsertSorted(sorted, r) ==
    LET after == {k \in 1..Len(sorted) : ComparePriority(sorted[k], r) > 0}
        at == IF after = {} THEN Len(sorted) + 1 ELSE Least(after)
    IN  SubSeq(sorted, 1, at - 1) \o <<r>> \o SubSeq(sorted, at, Len(sorted))

RECURSIVE SortFrom(_, _)
SortFrom(sorted, rest) ==
    IF rest = <<>> THEN sorted
    ELSE SortFrom(InsertSorted(sorted, Head(rest)), Tail(rest))

sortByPriority(list) == SortFrom(<<>>, list)

\* the result of extractRemindersFromNotes(notes) when it does not throw
extractRemindersFromNotes(notes, now, draw) ==
    sortByPriority(uniqueReminders(ForEachNote(<<>>, notes, now, draw)))

(***************************************************************************)
(* State.  The page and its components (Spec), one call of                 *)
(* extractRemindersFromNotes followed stage by stage (ExtractSpec), and    *)
(* one call of similarity (SimSpec).                                       *)
(***************************************************************************)
VARIABLES
    \* src/app/page.tsx: the state notes of HabitIQ, and the item
    \* 'habitiq-notes' of localStorage
    notes, storage,
    \* the VoiceInput component: its state isRecording, and the
    \* SpeechRecognition objects that startRecording has created and that
    \* have not ended, each with the closure of its handlers
    isRecording, recognitions,
    \* src/components/smart-reminders.tsx: the state of SmartReminders
    reminders, showCompleted,
    \* src/components/notes-manager.tsx: the state of NotesManager
    editingNote, editContent,
    \* Date.now(), in milliseconds
    now,
    \* history, read by no handler: the reminders the user has completed
    \* (and not completed back) or dismissed, each with its noteId and text,
    \* the body of its note and whether the effect has run since, kept
    \* while that note stays as it was
    acted,
    \* one call of extractRemindersFromNotes: its argument, the stage it
    \* has reached, the local array reminders after notes.forEach, the
    \* result of the filter, the returned array, and the array returned by
    \* the call before it on the same argument
    xNotes, xStage, xReminders, xUnique, xResult, xPrevious,
    \* one call of similarity(str1, str2) and the call with the arguments
    \* exchanged, and one call of levenshteinDistance(str1, str2)
    str1, str2, simStage, simForward, simBackward, simDistance

appVars == <<notes, storage, reminders, showCompleted, editingNote, editContent, acted>>
voiceVars == <<isRecording, recognitions>>
extractVars == <<xNotes, xStage, xReminders, xUnique, xResult, xPrevious>>
simVars == <<str1, str2, simStage, simForward, simBackward, simDistance>>
vars == <<appVars, voiceVars, now, extractVars, simVars, memo>>

\* the values Math.random() takes in two runs are told apart by the draw
Draws == {"r1", "r2"}

\* editingNote === null
NoNote == [id |-> Undefined]

\* no call came before
NoPrevious == [returned |-> FALSE, result |-> <<>>]

\* localStorage.getItem('habitiq-notes') === null
NoItem == [stored |-> FALSE, value |-> <<>>]

AppIdle ==
    /\ notes = <<>>
    /\ storage = NoItem
    /\ reminders = <<>>
    /\ showCompleted = FALSE
    /\ editingNote = NoNote
    /\ editContent = <<>>
    /\ acted = {}

VoiceIdle ==
    /\ isRecording = FALSE
    /\ recognitions = <<>>

ExtractIdle ==
    /\ xNotes = <<>>
    /\ xStage = "idle"
    /\ xReminders = <<>>
    /\ xUnique = <<>>
    /\ xResult = <<>>
    /\ xPrevious = NoPrevious

SimIdle ==
    /\ str1 = <<>>
    /\ str2 = <<>>
    /\ simStage = "idle"
    /\ simForward = Quotient(0, 0)
    /\ simBackward = Quotient(0, 0)
    /\ simDistance = 0

(***************************************************************************)
(* SimSpec: similarity on every pair of strings of at most MaxStrLen       *)
(* characters.                                                             *)
(***************************************************************************)
SimAlphabet == {"a", "b"}

SimStrings == UNION {[1..n -> SimAlphabet] : n \in 0..MaxStrLen}

SimInit ==
    /\ AppIdle /\ VoiceIdle /\ ExtractIdle /\ now = 1
    /\ memo = MemoOf({})
    /\ str1 \in SimStrings
    /\ str2 \in SimStrings
    /\ simStage = "call"
    /\ simForward = Quotient(0, 0)
    /\ simBackward = Quotient(0, 0)
    /\ simDistance = 0

CallSimilarity ==
    /\ simStage = "call"
    /\ simForward' = similarity(str1, str2)
    /\ simBackward' = similarity(str2, str1)
    /\ simDistance' = levenshteinDistance(str1, str2)
    /\ simStage' = "returned"
    /\ UNCHANGED <<memo, str1, str2, appVars, voiceVars, now, extractVars>>

SimNext == CallSimilarity

SimSpec == SimInit /\ [][SimNext]_vars

(***************************************************************************)
(* ExtractSpec: extractRemindersFromNotes on every sequence of at most     *)
(* MaxInput notes, run again any number of times on the same argument.     *)
(***************************************************************************)
\* what a caller can pass as one note: a text note of each body, a voice
\* note (content '' and a transcript), and an object with neither content
\* nor transcript
NoteShapes ==
    {[content |-> b, transcript |-> Undefined, type |-> "text"] : b \in ExtractBodies}
    \cup {[content |-> <<>>, transcript |-> <<"n","e","e","d"," ","t","o"," ","w","a","l","k"," ","m","a","y","b","e">>, type |-> "voice"]}
    \cup {[content |-> Undefined, transcript |-> Undefined, type |-> "text"]}

InputArrays ==
    UNION {{[k \in 1..n |->
                [id |-> toString(k), content |-> f[k].content,
                 transcript |-> f[k].transcript, timestamp |-> k,
                 type |-> f[k].type, tags |-> <<>>]] :
            f \in [1..n -> NoteShapes]} : n \in 0..MaxInput}

ExtractInit ==
    /\ AppIdle /\ VoiceIdle /\ SimIdle /\ now = 1
    /\ memo = MemoOf(KnownTexts)
    /\ xNotes \in InputArrays
    /\ xStage = "call"
    /\ xReminders = <<>>
    /\ xUnique = <<>>
    /\ xResult = <<>>
    /\ xPrevious = NoPrevious

\* lines 67-104: notes.forEach fills the local array, or text.toLowerCase()
\* throws
RunForEach ==
    /\ xStage = "call"
    /\ IF Throws(xNotes)
       THEN /\ xStage' = "TypeError"
            /\ UNCHANGED xReminders
       ELSE /\ \E draw \in Draws : xReminders' = ForEachNote(<<>>, xNotes, now, draw)
            /\ xStage' = "filter"
    /\ UNCHANGED <<memo, xNotes, xUnique, xResult, xPrevious, appVars, voiceVars, now, simVars>>

\* lines 107-111
RunFilter ==
    /\ xStage = "filter"
    /\ xUnique' = uniqueReminders(xReminders)
    /\ xStage' = "sort"
    /\ UNCHANGED <<memo, xNotes, xReminders, xResult, xPrevious, appVars, voiceVars, now, simVars>>

\* lines 113-116
RunSort ==
    /\ xStage = "sort"
    /\ xResult' = sortByPriority(xUnique)
    /\ xStage' = "returned"
    /\ UNCHANGED <<memo, xNotes, xReminders, xUnique, xPrevious, appVars, voiceVars, now, simVars>>

\* the caller keeps the result and calls again with the same argument
CallAgain ==
    /\ xStage = "returned"
    /\ xPrevious' = [returned |-> TRUE, result |-> xResult]
    /\ xStage' = "call"
    /\ xReminders' = <<>>
    /\ xUnique' = <<>>
    /\ xResult' = <<>>
    /\ UNCHANGED <<memo, xNotes, appVars, voiceVars, now, simVars>>

\* time passes between two calls
ExtractTick ==
    /\ xStage = "returned"
    /\ now < MaxClock
    /\ now' = now + 1
    /\ UNCHANGED <<memo, extractVars, appVars, voiceVars, simVars>>

ExtractNext == RunForEach \/ RunFilter \/ RunSort \/ CallAgain \/ ExtractTick

ExtractSpec == ExtractInit /\ [][ExtractNext]_vars

\* ExtractRunSpec: one call of extractRemindersFromNotes on every sequence
\* of at most MaxInput notes.  A call that has started runs on: the three
\* stages are the synchronous code of one function.  Each stage can run
\* whenever the call is at it and moves the call to another stage, so the
\* fairness is stated on the change of stage.
ExtractRunNext == RunForEach \/ RunFilter \/ RunSort

StageStep ==
    /\ xStage \in {"call", "filter", "sort"}
    /\ xStage' \in {"filter", "sort", "returned", "TypeError"} \ {xStage}

ExtractRunSpec == ExtractInit /\ [][ExtractRunNext]_vars /\ WF_xStage(StageStep)

(***************************************************************************)
(* Spec: the page.  A handler that replaces the note array is followed by  *)
(* the effect of SmartReminders on [notes] in the same step.               *)
(***************************************************************************)
\* extractTags of page.tsx, one test per line
TagTests == <<
  [tag |-> "fitness", words |-> <<<<"e","x","e","r","c","i","s","e">>, <<"w","o","r","k","o","u","t">>>>],
  [tag |-> "hydration", words |-> <<<<"w","a","t","e","r">>, <<"d","r","i","n","k">>>>],
  [tag |-> "sleep", words |-> <<<<"s","l","e","e","p">>, <<"b","e","d">>>>],
  [tag |-> "learning", words |-> <<<<"r","e","a","d">>, <<"b","o","o","k">>>>],
  [tag |-> "mindfulness", words |-> <<<<"m","e","d","i","t","a","t">>>>] >>

extractTags(content) ==
    LET lower == toLowerCase(content)
        hit == {n \in 1..Len(TagTests) :
                  \E k \in 1..Len(TagTests[n].words) : includes(lower, TagTests[n].words[k])}
    IN  [n \in 1..Cardinality(hit) |->
            TagTests[CHOOSE i \in hit : Cardinality({k \in hit : k <= i}) = n].tag]

\* a key without the note
MergeKeyTextOnly(r) == r.text

\* the key of existingMap: r.noteId + r.text, a string concatenation
MergeKey(r) == r.noteId \o r.text

\* the updater with a map keyed by the reminder id
MergeRemindersById(prev, extractedReminders) ==
    [k \in 1..Len(extractedReminders) |->
        LET newReminder == extractedReminders[k]
            same == {i \in 1..Len(prev) : prev[i].id = newReminder.id}
        IN  IF same = {} THEN newReminder
            ELSE LET existing == prev[CHOOSE i \in same : \A m \in same : m <= i]
                 IN  [newReminder EXCEPT !.isCompleted = existing.isCompleted,
                                         !.isDismissed = existing.isDismissed]]

\* the updater carrying isCompleted over and not isDismissed
MergeRemindersCompletedOnly(prev, extractedReminders) ==
    [k \in 1..Len(extractedReminders) |->
        LET newReminder == extractedReminders[k]
            same == {i \in 1..Len(prev) : MergeKey(prev[i]) = MergeKey(newReminder)}
        IN  IF same = {} THEN newReminder
            ELSE LET existing == prev[CHOOSE i \in same : \A m \in same : m <= i]
                 IN  [newReminder EXCEPT !.isCompleted = existing.isCompleted]]

\* the updater given to setReminders by the effect: new Map keeps the last
\* entry of a key
MergeReminders(prev, extractedReminders) ==
    [k \in 1..Len(extractedReminders) |->
        LET newReminder == extractedReminders[k]
            same == {i \in 1..Len(prev) : MergeKey(prev[i]) = MergeKey(newReminder)}
        IN  IF same = {} THEN newReminder
            ELSE LET existing == prev[CHOOSE i \in same : \A m \in same : m <= i]
                 IN  [newReminder EXCEPT !.isCompleted = existing.isCompleted,
                                         !.isDismissed = existing.isDismissed]]

\* the bodies of the notes with the given id, in the order of the array
BodiesOf(list, id) ==
    LET at == {k \in 1..Len(list) : list[k].id = id}
    IN  [n \in 1..Cardinality(at) |->
            NoteText(list[CHOOSE i \in at : Cardinality({k \in at : k <= i}) = n])]

\* the user's actions on reminders whose note is still there with the text
\* it had, now followed by a run of the effect
StillActed(updatedNotes) ==
    {[a EXCEPT !.carried = TRUE] :
        a \in {e \in acted : BodiesOf(updatedNotes, e.noteId) = e.bodies}}

\* useEffect(..., [notes]) of SmartReminders
NotesEffect(updatedNotes) ==
    IF Throws(updatedNotes) THEN UNCHANGED reminders
    ELSE \E draw \in Draws :
            reminders' = MergeReminders(reminders,
                                        extractRemindersFromNotes(updatedNotes, now, draw))

\* JSON.stringify(updatedNotes): the text is written as the array it
\* encodes; a property whose value is undefined is left out
stringify(updatedNotes) ==
    [k \in 1..Len(updatedNotes) |->
        LET note == updatedNotes[k]
            missing == {f \in {"content", "transcript"} : note[f] = Undefined}
        IN  [f \in (DOMAIN note) \ missing |-> note[f]]]

\* saveNotes of page.tsx, passed to NotesManager as onUpdateNotes
saveNotes(updatedNotes) ==
    /\ notes' = updatedNotes
    /\ storage' = [stored |-> TRUE, value |-> stringify(updatedNotes)]
    /\ NotesEffect(updatedNotes)
    /\ acted' = StillActed(updatedNotes)

Init ==
    /\ AppIdle /\ VoiceIdle /\ ExtractIdle /\ SimIdle
    /\ now = 1
    /\ memo = MemoOf(KnownTexts)

Tick ==
    /\ now < MaxClock
    /\ now' = now + 1
    /\ UNCHANGED <<memo, appVars, voiceVars, extractVars, simVars, voiceVars>>

addQuickNote(quickNote) ==
    /\ trim(quickNote) # <<>>
    /\ Len(notes) < MaxNotes
    /\ LET newNote == [id |-> toString(now), content |-> quickNote,
                       transcript |-> Undefined, timestamp |-> now,
                       type |-> "text", tags |-> extractTags(quickNote)]
       IN  saveNotes(<<newNote>> \o notes)
    /\ UNCHANGED <<memo, showCompleted, editingNote, editContent, now, extractVars, simVars, voiceVars>>

deleteNote(noteId) ==
    /\ \E k \in 1..Len(notes) : notes[k].id = noteId
    /\ saveNotes(SelectSeq(notes, LAMBDA note : note.id # noteId))
    /\ UNCHANGED <<memo, showCompleted, editingNote, editContent, now, extractVars, simVars, voiceVars>>

startEditing(note) ==
    /\ \E k \in 1..Len(notes) : notes[k] = note
    /\ editingNote' = note
    /\ editContent' = NoteText(note)
    /\ UNCHANGED <<memo, notes, storage, reminders, showCompleted, acted, now, extractVars, simVars, voiceVars>>

\* onChange of the edit box
setEditContent(value) ==
    /\ editContent' = value
    /\ UNCHANGED <<memo, notes, storage, reminders, showCompleted, editingNote, acted, now,
                   extractVars, simVars, voiceVars>>

\* the Cancel button: setEditingNote(null)
cancelEdit ==
    /\ editingNote # NoNote
    /\ editingNote' = NoNote
    /\ UNCHANGED <<memo, notes, storage, reminders, showCompleted, editContent, acted, now,
                   extractVars, simVars, voiceVars>>

EditedNote(note) ==
    [note EXCEPT
        !.content = IF editingNote.type = "text" THEN editContent ELSE note.content,
        !.transcript = IF editingNote.type = "voice" THEN editContent ELSE note.transcript]

\* if (!editingNote) return;
saveEdit ==
    IF editingNote = NoNote THEN UNCHANGED vars
    ELSE /\ saveNotes([k \in 1..Len(notes) |->
                        IF notes[k].id = editingNote.id
                        THEN EditedNote(notes[k]) ELSE notes[k]])
         /\ editingNote' = NoNote
         /\ editContent' = <<>>
         /\ UNCHANGED <<memo, showCompleted, now, extractVars, simVars, voiceVars>>

\* the reminders the list renders
activeReminders ==
    SelectSeq(reminders, LAMBDA r : ~r.isDismissed /\ (~r.isCompleted \/ showCompleted))

\* the reminders completedCount counts
completedReminders == SelectSeq(reminders, LAMBDA r : r.isCompleted /\ ~r.isDismissed)

completedCount == Len(completedReminders)

IsRendered(reminderId) ==
    \E k \in 1..Len(activeReminders) : activeReminders[k].id = reminderId

ReminderWithId(reminderId) ==
    reminders[CHOOSE k \in 1..Len(reminders) : reminders[k].id = reminderId]

ActedEntry(r, flag) ==
    [noteId |-> r.noteId, text |-> r.text, bodies |-> BodiesOf(notes, r.noteId),
     flag |-> flag, carried |-> FALSE]

\* the entries of acted for the flag of the reminder r, whatever id it had
EntriesOf(r, flag) ==
    {a \in acted : a.noteId = r.noteId /\ a.text = r.text /\ a.flag = flag}

\* completeReminder without the test of the id
completeReminderAll(reminderId) ==
    /\ IsRendered(reminderId)
    /\ reminders' = [k \in 1..Len(reminders) |->
                        [reminders[k] EXCEPT !.isCompleted = ~reminders[k].isCompleted]]
    /\ acted' = IF ReminderWithId(reminderId).isCompleted
                THEN acted \ EntriesOf(ReminderWithId(reminderId), "completed")
                ELSE acted \cup {ActedEntry(ReminderWithId(reminderId), "completed")}
    /\ UNCHANGED <<memo, notes, storage, showCompleted, editingNote, editContent, now, extractVars, simVars, voiceVars>>

completeReminder(reminderId) ==
    /\ IsRendered(reminderId)
    /\ reminders' = [k \in 1..Len(reminders) |->
                        IF reminders[k].id = reminderId
                        THEN [reminders[k] EXCEPT !.isCompleted = ~reminders[k].isCompleted]
                        ELSE reminders[k]]
    /\ acted' = IF ReminderWithId(reminderId).isCompleted
                THEN acted \ EntriesOf(ReminderWithId(reminderId), "completed")
                ELSE acted \cup {ActedEntry(ReminderWithId(reminderId), "completed")}
    /\ UNCHANGED <<memo, notes, storage, showCompleted, editingNote, editContent, now, extractVars, simVars, voiceVars>>

dismissReminder(reminderId) ==
    /\ IsRendered(reminderId)
    /\ reminders' = [k \in 1..Len(reminders) |->
                        IF reminders[k].id = reminderId
                        THEN [reminders[k] EXCEPT !.isDismissed = TRUE]
                        ELSE reminders[k]]
    /\ acted' = (acted \ EntriesOf(ReminderWithId(reminderId), "dismissed"))
                    \cup {ActedEntry(ReminderWithId(reminderId), "dismissed")}
    /\ UNCHANGED <<memo, notes, storage, showCompleted, editingNote, editContent, now, extractVars, simVars, voiceVars>>

\* the switch "show completed"
setShowCompleted(checked) ==
    /\ checked # showCompleted
    /\ showCompleted' = checked
    /\ UNCHANGED <<memo, notes, storage, reminders, editingNote, editContent, acted, now,
                   extractVars, simVars, voiceVars>>

ReminderIds == {reminders[k].id : k \in 1..Len(reminders)}

Next ==
    \/ Tick
    \/ \E quickNote \in QuickNotes : addQuickNote(quickNote)
    \/ \E k \in 1..Len(notes) : deleteNote(notes[k].id)
    \/ \E k \in 1..Len(notes) : startEditing(notes[k])
    \/ \E value \in EditTexts : setEditContent(value)
    \/ cancelEdit
    \/ saveEdit
    \/ \E reminderId \in ReminderIds : completeReminder(reminderId)
    \/ \E reminderId \in ReminderIds : dismissReminder(reminderId)
    \/ \E checked \in BOOLEAN : setShowCompleted(checked)

Spec == Init /\ [][Next]_vars

(***************************************************************************)
(* VoiceSpec: the page in a browser with speech recognition.  The          *)
(* handlers of a SpeechRecognition object are closures of the render in    *)
(* which startRecording ran: onend calls the onTranscript of that render,  *)
(* which is the onVoiceTranscript that reads the notes of that render.     *)
(* The user adds and deletes notes and uses the microphone; the edit       *)
(* dialog and the reminder buttons are left alone.                         *)
(***************************************************************************)
\* onVoiceTranscript of page.tsx, in the render whose notes are given
onVoiceTranscript(renderNotes, transcript) ==
    LET newNote == [id |-> toString(now), content |-> <<>>,
                    transcript |-> transcript, timestamp |-> now,
                    type |-> "voice", tags |-> extractTags(transcript)]
    IN  saveNotes(<<newNote>> \o renderNotes)

\* the button while isRecording is false; the array of the render has room
\* for the voice note, and fewer than maxSessions recognitions exist
startRecordingUpTo(maxSessions) ==
    /\ ~isRecording
    /\ Len(recognitions) < maxSessions
    /\ Len(notes) < MaxNotes
    /\ recognitions' = Append(recognitions,
                              [notes |-> notes, finalTranscript |-> <<>>,
                               started |-> FALSE])
    /\ UNCHANGED <<memo, isRecording, appVars, now, extractVars, simVars>>

startRecording == startRecordingUpTo(MaxSessions)

\* recognition.onstart
onstart(k) ==
    /\ ~recognitions[k].started
    /\ recognitions' = [recognitions EXCEPT ![k].started = TRUE]
    /\ isRecording' = TRUE
    /\ UNCHANGED <<memo, appVars, now, extractVars, simVars>>

\* recognition.onresult with one final result; a session gets one
onresult(k, transcript) ==
    /\ recognitions[k].started
    /\ recognitions[k].finalTranscript = <<>>
    /\ recognitions' = [recognitions EXCEPT
                            ![k].finalTranscript = @ \o transcript \o <<" ">>]
    /\ UNCHANGED <<memo, isRecording, appVars, now, extractVars, simVars>>

\* recognition.onerror
onerror(k) ==
    /\ recognitions[k].started
    /\ isRecording' = FALSE
    /\ UNCHANGED <<memo, recognitions, appVars, now, extractVars, simVars>>

\* recognition.onend: the service has ended the session
onend(k) ==
    /\ recognitions[k].started
    /\ isRecording' = FALSE
    /\ recognitions' = [n \in 1..(Len(recognitions) - 1) |->
                            IF n < k THEN recognitions[n] ELSE recognitions[n + 1]]
    /\ IF trim(recognitions[k].finalTranscript) # <<>>
       THEN onVoiceTranscript(recognitions[k].notes,
                              formatAsMarkdown(trim(recognitions[k].finalTranscript), now))
       ELSE UNCHANGED <<notes, storage, reminders, acted>>
    /\ UNCHANGED <<memo, showCompleted, editingNote, editContent, now, extractVars, simVars>>

\* the button while isRecording is true
stopRecording ==
    /\ isRecording
    /\ isRecording' = FALSE
    /\ UNCHANGED <<memo, recognitions, appVars, now, extractVars, simVars>>

VoiceNext ==
    \/ Tick
    \/ \E quickNote \in QuickNotes : addQuickNote(quickNote)
    \/ \E k \in 1..Len(notes) : deleteNote(notes[k].id)
    \/ startRecording
    \/ \E k \in 1..Len(recognitions) : onstart(k)
    \/ \E k \in 1..Len(recognitions) : \E transcript \in VoiceResults : onresult(k, transcript)
    \/ \E k \in 1..Len(recognitions) : onerror(k)
    \/ \E k \in 1..Len(recognitions) : onend(k)
    \/ stopRecording

VoiceSpec == Init /\ [][VoiceNext]_vars

(***************************************************************************)
(* MicSpec: the microphone button alone.  Nothing is typed and nothing is  *)
(* deleted, and the button may be pressed while recognitions of earlier    *)
(* presses exist, up to MaxMicSessions of them.                            *)
(***************************************************************************)
MaxMicSessions == 2

MicNext ==
    \/ Tick
    \/ startRecordingUpTo(MaxMicSessions)
    \/ \E k \in 1..Len(recognitions) : onstart(k)
    \/ \E k \in 1..Len(recognitions) : \E transcript \in VoiceResults : onresult(k, transcript)
    \/ \E k \in 1..Len(recognitions) : onerror(k)
    \/ \E k \in 1..Len(recognitions) : onend(k)
    \/ stopRecording

MicSpec == Init /\ [][MicNext]_vars

(***************************************************************************)
(* Claims about similarity (SimSpec).                                      *)
(***************************************************************************)
\* the comparison == of two results of a division: NaN equals nothing,
\* itself included
NumbersEqual(q1, q2) ==
    /\ ~IsNaN(q1)
    /\ ~IsNaN(q2)
    /\ q1.num * q2.den = q2.num * q1.den

\* C10: similarity is symmetric: similarity(a, b) == similarity(b, a) for
\* all strings a and b, of equal length or not.
C10_SimilaritySymmetric ==
    simStage = "returned" => NumbersEqual(simForward, simBackward)

(***************************************************************************)
(* Claims about extractRemindersFromNotes (ExtractSpec).                   *)
(***************************************************************************)
PositionIn(list, id) == CHOOSE k \in 1..Len(list) : list[k].id = id

\* C1: the returned list is the stable sort by priority of the
\* deduplicated candidates: it holds the same reminders, no reminder comes
\* after one of lower priority, and reminders of equal priority keep the
\* order they had after the duplicate filter.
C1_StableSortByPriority ==
    xStage = "returned" =>
        /\ Len(xResult) = Len(xUnique)
        /\ \A k \in 1..Len(xUnique) : \E i \in 1..Len(xResult) : xResult[i] = xUnique[k]
        /\ \A i, j \in 1..Len(xResult) :
              i < j =>
                /\ priorityOrder[xResult[i].priority] >= priorityOrder[xResult[j].priority]
                /\ xResult[i].priority = xResult[j].priority =>
                      PositionIn(xUnique, xResult[i].id) < PositionIn(xUnique, xResult[j].id)

\* a result with all three priorities and two reminders of equal priority,
\* which the sort has reordered
C1_Witness ==
    /\ xStage = "returned"
    /\ {xResult[i].priority : i \in 1..Len(xResult)} = {"high", "medium", "low"}
    /\ \E i, j \in 1..Len(xResult) : i < j /\ xResult[i].priority = xResult[j].priority
    /\ xResult # xUnique

\* the indices a filter that compares with the kept candidates only keeps
RECURSIVE KeptAgainstKept(_, _, _)
KeptAgainstKept(list, i, kept) ==
    IF i > Len(list) THEN kept
    ELSE KeptAgainstKept(
            list, i + 1,
            IF \E k \in kept :
                  GreaterThan(similarity(list[k].text, list[i].text),
                              ThresholdNum, ThresholdDen)
            THEN kept ELSE kept \cup {i})

\* C2: a candidate is dropped if and only if its similarity to an earlier
\* candidate that was itself kept is above 0.7; a candidate similar only to
\* dropped candidates is kept.
C2_GreedyAgainstKept ==
    xStage \in {"sort", "returned"} =>
        xUnique = FilterByIndex(xReminders, KeptAgainstKept(xReminders, 1, {}))

\* a reminder without its id
WithoutId(r) == [r EXCEPT !.id = <<>>]

WithoutIds(list) == [k \in 1..Len(list) |-> WithoutId(list[k])]

RECURSIVE MatchCount(_)
MatchCount(list) ==
    IF list = <<>> THEN 0
    ELSE Len(NoteMatches(NoteText(Head(list))).matches) + MatchCount(Tail(list))

\* C8: the result holds at most as many reminders as the patterns match
\* over all notes, and none for the empty note sequence.
C8_LengthBounded ==
    xStage = "returned" =>
        /\ Len(xResult) <= MatchCount(xNotes)
        /\ xNotes = <<>> => xResult = <<>>

\* a non-empty result that is shorter than the number of matches
C8_Witness ==
    /\ xStage = "returned"
    /\ Len(xResult) >= 2
    /\ Len(xResult) < MatchCount(xNotes)

\* C9: extraction never raises, also for a note with neither transcript
\* nor content.
C9_NeverRaises == xStage # "TypeError"

(***************************************************************************)
(* Claims about the reminder list of the page (Spec).                      *)
(***************************************************************************)
\* a step on which the effect on [notes] has set the list anew: the steps
\* of addQuickNote, deleteNote and saveEdit, the only ones that change the
\* notes or the ids of the reminders
EffectRan == notes' # notes \/ ReminderIds' # ReminderIds

SamePair(r1, r2) == r1.noteId = r2.noteId /\ r1.text = r2.text

SameFlags(r1, r2) ==
    r1.isCompleted = r2.isCompleted /\ r1.isDismissed = r2.isDismissed

\* C3: when extraction is re-run after the note array is replaced, every
\* new reminder whose (noteId, text) equals that of a reminder of the
\* previous list has that reminder's isCompleted and isDismissed.
C3_FlagsCarriedOver ==
    [][EffectRan =>
          \A k \in 1..Len(reminders') : \A i \in 1..Len(reminders) :
              SamePair(reminders'[k], reminders[i]) =>
                  SameFlags(reminders'[k], reminders[i])]_vars

\* a reminder the user completed that has been extracted again since and
\* is still completed
C3_Witness ==
    \E a \in acted : \E k \in 1..Len(reminders) :
        /\ a.flag = "completed"
        /\ a.carried
        /\ a.noteId = reminders[k].noteId
        /\ a.text = reminders[k].text
        /\ reminders[k].isCompleted

\* C4: once a reminder of note N has been completed or dismissed, and as
\* long as note N stays in the collection with its text, the list never
\* shows that reminder text of note N with the flag false again.
C4_ActionsSurvive ==
    \A a \in acted : \A k \in 1..Len(reminders) :
        (a.noteId = reminders[k].noteId /\ a.text = reminders[k].text) =>
            /\ a.flag = "completed" => reminders[k].isCompleted
            /\ a.flag = "dismissed" => reminders[k].isDismissed

\* C5: a newly extracted reminder has the flags of a previous reminder
\* with the same noteId and the same text, and both flags false when the
\* previous list holds no such reminder.
C5_ExactPairOnly ==
    [][EffectRan =>
          \A k \in 1..Len(reminders') :
              LET exact == {i \in 1..Len(reminders) : SamePair(reminders'[k], reminders[i])}
              IN  IF exact = {}
                  THEN ~reminders'[k].isCompleted /\ ~reminders'[k].isDismissed
                  ELSE \E i \in exact : SameFlags(reminders'[k], reminders[i])]_vars

\* a reminder with both flags false whose text the user has completed or
\* dismissed on another note, still in the collection
C5_Witness ==
    \E a \in acted : \E k \in 1..Len(reminders) :
        /\ a.text = reminders[k].text
        /\ a.noteId # reminders[k].noteId
        /\ ~reminders[k].isCompleted
        /\ ~reminders[k].isDismissed

\* r2 is r1 but for the named flag
OnlyCompletedDiffers(r1, r2) == [r2 EXCEPT !.isCompleted = r1.isCompleted] = r1

OnlyDismissedDiffers(r1, r2) == [r2 EXCEPT !.isDismissed = r1.isDismissed] = r1

\* C7: completeReminder(id) and dismissReminder(id) change only the flag
\* isCompleted (isDismissed) of the reminder with that id: the other
\* reminders, the other fields, the length and order of the list and the
\* notes stay, and no reminder is extracted anew.
C7_OnlyTheFlag ==
    [][\A reminderId \in ReminderIds :
          /\ completeReminder(reminderId) =>
                /\ notes' = notes
                /\ Len(reminders') = Len(reminders)
                /\ \A k \in 1..Len(reminders) :
                      IF reminders[k].id = reminderId
                      THEN OnlyCompletedDiffers(reminders[k], reminders'[k])
                      ELSE reminders'[k] = reminders[k]
          /\ dismissReminder(reminderId) =>
                /\ notes' = notes
                /\ Len(reminders') = Len(reminders)
                /\ \A k \in 1..Len(reminders) :
                      IF reminders[k].id = reminderId
                      THEN OnlyDismissedDiffers(reminders[k], reminders'[k])
                      ELSE reminders'[k] = reminders[k]]_vars

\* a list in which one reminder has been completed and another dismissed,
\* each without the other flag
C7_Witness ==
    \E i, j \in 1..Len(reminders) :
        /\ reminders[i].isCompleted /\ ~reminders[i].isDismissed
        /\ reminders[j].isDismissed /\ ~reminders[j].isCompleted

(***************************************************************************)
(* Further claims about similarity and levenshteinDistance (SimSpec).      *)
(***************************************************************************)
\* C11: similarity(a, a) == 1 for every string a, the empty string
\* included.
C11_SelfSimilarityIsOne ==
    (simStage = "returned" /\ str1 = str2) =>
        NumbersEqual(simForward, Quotient(1, 1))

\* the least number of insertions, deletions and substitutions of one
\* character that turn a into b, by cases on the first characters
RECURSIVE EditDistance(_, _)
EditDistance(a, b) ==
    IF a = <<>> THEN Len(b)
    ELSE IF b = <<>> THEN Len(a)
    ELSE LET substituted == EditDistance(Tail(a), Tail(b))
                                + (IF Head(a) = Head(b) THEN 0 ELSE 1)
             deleted == EditDistance(Tail(a), b) + 1
             inserted == EditDistance(a, Tail(b)) + 1
         IN  IF substituted <= deleted /\ substituted <= inserted THEN substituted
             ELSE IF deleted <= inserted THEN deleted ELSE inserted

LongerLength(a, b) == IF Len(a) > Len(b) THEN Len(a) ELSE Len(b)

\* C20: levenshteinDistance(a, b) is the edit distance of a and b for all
\* strings, empty ones included, and similarity(a, b) is the quotient
\* (maxLen - distance) / maxLen with maxLen the longer length.
C20_EditDistanceAndQuotient ==
    simStage = "returned" =>
        /\ simDistance = EditDistance(str1, str2)
        /\ simForward = Quotient(LongerLength(str1, str2) - EditDistance(str1, str2),
                                 LongerLength(str1, str2))

\* two strings of different lengths that need more than one edit, and
\* still share something
C20_Witness ==
    /\ simStage = "returned"
    /\ Len(str1) # Len(str2)
    /\ str1 # <<>> /\ str2 # <<>>
    /\ simDistance > 1
    /\ simForward.num > 0

(***************************************************************************)
(* The scenarios of the specification, under ExtractSpec.                  *)
(***************************************************************************)
\* the call has returned and its argument was one note with this body
ReturnedForNote(body) ==
    /\ xStage = "returned"
    /\ Len(xNotes) = 1
    /\ NoteText(xNotes[1]) = body

\* the call has returned and its argument was two notes, one with each body
ReturnedForNotes(body1, body2) ==
    /\ xStage = "returned"
    /\ Len(xNotes) = 2
    /\ \/ NoteText(xNotes[1]) = body1 /\ NoteText(xNotes[2]) = body2
       \/ NoteText(xNotes[1]) = body2 /\ NoteText(xNotes[2]) = body1

\* C12: extraction over the single note "I need to exercise tomorrow"
\* returns exactly one reminder, of category fitness, priority medium and
\* suggestedTime "tomorrow".
C12_ExerciseTomorrowYieldsOne ==
    ReturnedForNote(ExerciseTomorrow) =>
        /\ Len(xResult) = 1
        /\ xResult[1].category = "fitness"
        /\ xResult[1].priority = "medium"
        /\ xResult[1].suggestedTime = <<"t","o","m","o","r","r","o","w">>

\* C13: extraction over the single note "urgent: call the doctor asap"
\* returns a reminder, and its priority is high.
C13_UrgentCallIsHigh ==
    ReturnedForNote(UrgentCall) =>
        /\ Len(xResult) >= 1
        /\ \A k \in 1..Len(xResult) : xResult[k].priority = "high"

\* C14: extraction over the two notes "drink more water" and "drink water
\* more" returns exactly one reminder.
C14_DrinkWaterCollapses ==
    ReturnedForNotes(DrinkMoreWater, DrinkWaterMore) => Len(xResult) = 1

(***************************************************************************)
(* The fields of the candidates, under ExtractSpec.                        *)
(***************************************************************************)
\* word occurs in s, letters compared without regard to case
ContainsIgnoreCase(s, word) ==
    \E p \in 1..(Len(s) - Len(word) + 1) :
        \A k \in 1..Len(word) : LowerChar(s[p + k - 1]) = LowerChar(word[k])

UrgentKeywords == {<<"u","r","g","e","n","t">>, <<"i","m","p","o","r","t","a","n","t">>, <<"a","s","a","p">>, <<"i","m","m","e","d","i","a","t","e","l","y">>, <<"c","r","i","t","i","c","a","l">>, <<"d","e","a","d","l","i","n","e">>}

TentativeKeywords == {<<"m","a","y","b","e">>, <<"e","v","e","n","t","u","a","l","l","y">>, <<"s","o","m","e","d","a","y">>, <<"i","f"," ","p","o","s","s","i","b","l","e">>}

HasUrgent(text) == \E w \in UrgentKeywords : ContainsIgnoreCase(text, w)

HasTentative(text) == \E w \in TentativeKeywords : ContainsIgnoreCase(text, w)

\* C16: every candidate pushed by notes.forEach, and so every returned
\* reminder, has priority high if its text contains an urgent keyword,
\* otherwise low if it contains a tentative keyword, otherwise medium; a
\* text with both kinds of keyword is high.
C16_PriorityByKeywords ==
    \A k \in 1..Len(xReminders) :
        LET r == xReminders[k]
        IN  /\ HasUrgent(r.text) => r.priority = "high"
            /\ (~HasUrgent(r.text) /\ HasTentative(r.text)) => r.priority = "low"
            /\ (~HasUrgent(r.text) /\ ~HasTentative(r.text)) => r.priority = "medium"

\* a run has returned a reminder whose text has an urgent and a tentative
\* keyword, and one with a tentative keyword only
C16_Witness ==
    /\ xStage = "returned"
    /\ \E k \in 1..Len(xResult) :
          HasUrgent(xResult[k].text) /\ HasTentative(xResult[k].text)
    /\ \E k \in 1..Len(xResult) :
          ~HasUrgent(xResult[k].text) /\ HasTentative(xResult[k].text)

\* the order of the keyword groups
GroupOrder == <<"fitness", "hydration", "sleep", "mindfulness", "learning",
                "work", "nutrition">>

\* a keyword of the group of this name occurs in text
GroupMatches(name, text) ==
    \E g \in 1..Len(CategoryGroups) :
        /\ CategoryGroups[g].name = name
        /\ \E k \in 1..Len(CategoryGroups[g].words) :
              ContainsIgnoreCase(text, CategoryGroups[g].words[k])

\* C17: the category of every candidate is the first group of the order
\* fitness, hydration, sleep, mindfulness, learning, work, nutrition with a
\* keyword in the candidate's text, and general when no group has one.
C17_FirstMatchingGroup ==
    \A k \in 1..Len(xReminders) :
        LET r == xReminders[k]
            hit == {n \in 1..Len(GroupOrder) : GroupMatches(GroupOrder[n], r.text)}
        IN  /\ hit = {} => r.category = "general"
            /\ hit # {} =>
                 \E n \in hit : /\ r.category = GroupOrder[n]
                                /\ \A h \in hit : n <= h

\* a run has returned a reminder whose text has keywords of two groups
C17_Witness ==
    /\ xStage = "returned"
    /\ \E k \in 1..Len(xResult) :
          \E n, h \in 1..Len(GroupOrder) :
              /\ n < h
              /\ GroupMatches(GroupOrder[n], xResult[k].text)
              /\ GroupMatches(GroupOrder[h], xResult[k].text)
              /\ xResult[k].category = GroupOrder[n]

\* the phrases of the time hint, in their order
TimePhrases == <<
    <<"t","o","m","o","r","r","o","w">>,
    <<"t","o","d","a","y">>,
    <<"t","o","n","i","g","h","t">>,
    <<"t","h","i","s"," ","m","o","r","n","i","n","g">>,
    <<"t","h","i","s"," ","a","f","t","e","r","n","o","o","n">>,
    <<"t","h","i","s"," ","e","v","e","n","i","n","g">>,
    <<"t","h","i","s"," ","w","e","e","k">>,
    <<"n","e","x","t"," ","w","e","e","k">>,
    <<"t","h","i","s"," ","m","o","n","t","h">> >>

\* the first phrase of the list that occurs in the body, or nothing
FirstTimePhrase(body) ==
    LET hit == {n \in 1..Len(TimePhrases) : ContainsIgnoreCase(body, TimePhrases[n])}
    IN  IF hit = {} THEN Undefined
        ELSE TimePhrases[CHOOSE n \in hit : \A h \in hit : n <= h]

\* the body of the note a candidate was extracted from
BodyOf(r) ==
    NoteText(xNotes[CHOOSE n \in 1..Len(xNotes) : xNotes[n].id = r.noteId])

\* C18: suggestedTime of every candidate is the first phrase of the list
\* tomorrow, today, tonight, this morning, this afternoon, this evening,
\* this week, next week, this month that occurs in the body of its note,
\* exactly that phrase, and is absent when none occurs.
C18_TimeHintIsThePhrase ==
    \A k \in 1..Len(xReminders) :
        xReminders[k].suggestedTime = FirstTimePhrase(BodyOf(xReminders[k]))

\* C19: the text of every returned reminder is the trimmed group (or whole
\* match) of a match of a pattern on the body of its note, and is longer
\* than 3 characters.
C19_TextsLongerThanThree ==
    \A k \in 1..Len(xResult) :
        LET r == xResult[k]
            found == NoteMatches(BodyOf(r)).matches
        IN  /\ \E j \in 1..Len(found) :
                  r.text = trim(ReminderText(BodyOf(r), found[j]))
            /\ Len(r.text) > 3

(***************************************************************************)
(* Claims about the note collection (VoiceSpec).                           *)
(***************************************************************************)
NoteIds(list) == {list[k].id : k \in 1..Len(list)}

\* from the collection before to the collection after, a note is gone only
\* if the step is deleteNote of its id, and a note has appeared only if the
\* step has created it (its id is Date.now().toString())
LeavesOnlyByDelete(before, after) ==
    /\ \A id \in NoteIds(before) \ NoteIds(after) :
          after = SelectSeq(before, LAMBDA note : note.id # id)
    /\ \A id \in NoteIds(after) \ NoteIds(before) : id = toString(now)

\* C15: under every interleaving of addQuickNote, startRecording, the
\* delivery of the transcript by recognition.onend and deleteNote, a note
\* leaves the array notes and the item of localStorage only by deleteNote
\* of its id: an addition keeps every note that was there, and a deleted
\* note does not come back.
C15_NotesLeaveOnlyByDelete ==
    [][/\ LeavesOnlyByDelete(notes, notes')
       /\ LeavesOnlyByDelete(storage.value, storage'.value)]_vars

(***************************************************************************)
(* Claims about the edit dialog (Spec).                                    *)
(***************************************************************************)
\* the step closes the edit dialog: saveEdit with a note being edited, or
\* Cancel, which leaves the notes alone
DialogCloses == editingNote # NoNote /\ editingNote' = NoNote

\* the places of the collection whose note the step has changed
ChangedPlaces == {k \in 1..Len(notes) : k > Len(notes') \/ notes'[k] # notes[k]}

\* the note at place k has changed in its text body only, which is now the
\* text of the edit box
OnlyBodyEdited(k) ==
    /\ notes'[k].id = notes[k].id
    /\ notes'[k].timestamp = notes[k].timestamp
    /\ notes'[k].type = notes[k].type
    /\ notes'[k].tags = notes[k].tags
    /\ IF notes[k].type = "text"
       THEN notes'[k].transcript = notes[k].transcript /\ notes'[k].content = editContent
       ELSE notes'[k].content = notes[k].content /\ notes'[k].transcript = editContent

\* C21: saveEdit changes the text body of the one note being edited and
\* nothing else of the collection: the other fields of that note, every
\* other note, the order and the length stay as they were.
C21_SaveEditOnlyTheBody ==
    [][DialogCloses =>
          /\ Len(notes') = Len(notes)
          /\ Cardinality(ChangedPlaces) <= 1
          /\ \A k \in ChangedPlaces : notes[k].id = editingNote.id /\ OnlyBodyEdited(k)]_vars

\* the same statement for the collections whose notes have pairwise
\* distinct ids, where it holds
SaveEditGivenDistinctIds ==
    [][(DialogCloses /\ \A j, k \in 1..Len(notes) : notes[j].id = notes[k].id => j = k) =>
          /\ Len(notes') = Len(notes)
          /\ Cardinality(ChangedPlaces) <= 1
          /\ \A k \in ChangedPlaces : notes[k].id = editingNote.id /\ OnlyBodyEdited(k)]_vars

(***************************************************************************)
(* Claims about the run of the extraction (ExtractRunSpec).                *)
(***************************************************************************)
\* the matches of all patterns on the bodies of the notes are non-empty
\* and lie inside the body
MatchesNonEmpty(list) ==
    \A n \in 1..Len(list) :
        LET text == NoteText(list[n])
            found == NoteMatches(text).matches
        IN  \A k \in 1..Len(found) :
                /\ found[k].length >= 1
                /\ found[k].index >= 0
                /\ found[k].index + found[k].length <= Len(text)

\* the exec loop of each pattern on the bodies of the notes moves on: a
\* match starts at or after the end of the match before it
LoopsAdvance(list) ==
    \A n \in 1..Len(list) : \A p \in 1..PatternCount :
        LET found == ExecLoop(p, NoteText(list[n]), 0)
        IN  \A k \in 2..Len(found) :
                found[k].index >= found[k - 1].index + found[k - 1].length

\* the number of matches over all notes that pass the test of line 88
RECURSIVE PushedCount(_)
PushedCount(list) ==
    IF list = <<>> THEN 0
    ELSE LET text == NoteText(Head(list))
             found == NoteMatches(text).matches
         IN  Cardinality({k \in 1..Len(found) : IsPushed(text, found[k])})
                 + PushedCount(Tail(list))

\* after notes.forEach the local array has one candidate for every match of
\* every pattern on every note that passes the test, and what is returned
\* is made of the filtered candidates
NothingPartial ==
    /\ xStage \in {"filter", "sort", "returned"} =>
          /\ MatchesNonEmpty(xNotes)
          /\ LoopsAdvance(xNotes)
          /\ Len(xReminders) = PushedCount(xNotes)
    /\ xStage \in {"sort", "returned"} => xUnique = uniqueReminders(xReminders)
    /\ xStage = "returned" => Len(xResult) = Len(xUnique)

\* C22, as the specification has it: on every note sequence the exec loops
\* end, the call returns, and the result is never partial.
C22_AlwaysReturns ==
    /\ []NothingPartial
    /\ (xStage = "call") ~> (xStage = "returned")

\* the same statement for the note sequences whose notes all have a text (a
\* transcript or a content), where it holds
ReturnsWhenNotesHaveText ==
    /\ []NothingPartial
    /\ (xStage = "call" /\ ~Throws(xNotes)) ~> (xStage = "returned")

(***************************************************************************)
(* Claims about the filtered list (ExtractSpec).                           *)
(***************************************************************************)
\* no two reminders of the list have texts that are more than 0.7 similar,
\* in either order of the arguments; hence no two have the same text, and
\* no two the same noteId and text
PairwiseDissimilar(list) ==
    \A i, j \in 1..Len(list) :
        i # j =>
            /\ ~GreaterThan(similarity(list[i].text, list[j].text), 7, 10)
            /\ list[i].text # list[j].text
            /\ <<list[i].noteId, list[i].text>> # <<list[j].noteId, list[j].text>>
            /\ MergeKey(list[i]) # MergeKey(list[j])

\* C23: in the list the filter leaves and in the list the call returns, no
\* two reminders have texts with a similarity above 0.7; all texts are
\* pairwise distinct across the notes, and no merge key occurs twice.
C23_SurvivorsDissimilar ==
    /\ xStage \in {"sort", "returned"} => PairwiseDissimilar(xUnique)
    /\ xStage = "returned" => PairwiseDissimilar(xResult)

\* a call on two notes has returned two reminders or more, one from each
\* note, after the filter has dropped a candidate of the second note for
\* one of the first
C23_Witness ==
    /\ xStage = "returned"
    /\ Len(xResult) >= 2
    /\ \E i, j \in 1..Len(xResult) : xResult[i].noteId # xResult[j].noteId
    /\ \E i, j \in 1..Len(xReminders) :
          /\ i < j
          /\ xReminders[i].noteId # xReminders[j].noteId
          /\ GreaterThan(similarity(xReminders[i].text, xReminders[j].text), 7, 10)

(***************************************************************************)
(* Claims about dismissal (Spec).                                          *)
(***************************************************************************)
\* a dismissed reminder is not rendered and not counted as completed
DismissedHidden ==
    \A k \in 1..Len(reminders) :
        reminders[k].isDismissed =>
            /\ \A j \in 1..Len(activeReminders) : activeReminders[j].id # reminders[k].id
            /\ \A j \in 1..Len(completedReminders) :
                  completedReminders[j].id # reminders[k].id
            /\ completedCount <= Len(reminders) - 1

\* right after dismissReminder, before any run of the effect, the reminder
\* of that note and text is there and dismissed
DismissedAfterCall ==
    \A a \in acted :
        (a.flag = "dismissed" /\ ~a.carried) =>
            \E k \in 1..Len(reminders) :
                /\ reminders[k].noteId = a.noteId
                /\ reminders[k].text = a.text
                /\ reminders[k].isDismissed

\* a step that leaves the notes as they are (completeReminder,
\* dismissReminder, the switch, a tick of the clock, a saveEdit that writes
\* the text the note already has and so runs the extraction again) keeps
\* every dismissed reminder, by its noteId and text, and keeps it dismissed
DismissedStays ==
    notes' = notes =>
        \A k \in 1..Len(reminders) :
            reminders[k].isDismissed =>
                \E j \in 1..Len(reminders') :
                    /\ reminders'[j].noteId = reminders[k].noteId
                    /\ reminders'[j].text = reminders[k].text
                    /\ reminders'[j].isDismissed

\* C24: after dismissReminder the reminder of that note and text stays
\* dismissed under completeReminder, dismissReminder, the switch and the
\* runs of the extraction on unchanged notes; it is never among
\* activeReminders and never counted in completedCount.
C24_DismissalSticky ==
    /\ [](DismissedHidden /\ DismissedAfterCall)
    /\ [][DismissedStays]_vars

\* a reminder was completed and then dismissed, the extraction has run
\* again since, completed reminders are shown, and the reminder is still
\* completed and dismissed
C24_Witness ==
    /\ showCompleted
    /\ \E k \in 1..Len(reminders) :
          /\ reminders[k].isDismissed
          /\ reminders[k].isCompleted
          /\ \E a \in acted :
                /\ a.flag = "dismissed" /\ a.carried
                /\ a.noteId = reminders[k].noteId /\ a.text = reminders[k].text

(***************************************************************************)
(* Claims about the ids of the notes (Spec).                               *)
(***************************************************************************)
IdsDistinct == \A j, k \in 1..Len(notes) : notes[j].id = notes[k].id => j = k

\* a step takes one note at most out of the collection, and changes one
\* note at most of a collection that keeps its length
OneNoteAtATime ==
    /\ Len(notes') >= Len(notes) - 1
    /\ Len(notes') = Len(notes) =>
          Cardinality({k \in 1..Len(notes) : notes'[k] # notes[k]}) <= 1

\* C25: after every sequence of addQuickNote, saveEdit and deleteNote the
\* notes of the collection have pairwise distinct ids, so that deleteNote
\* removes exactly one note and saveEdit changes exactly one.
C25_NoteIdsDistinct == []IdsDistinct /\ [][OneNoteAtATime]_vars

(***************************************************************************)
(* Claims about the microphone (MicSpec).                                  *)
(***************************************************************************)
\* the recognitions whose onstart has run and whose onend has not
RunningSessions == {k \in 1..Len(recognitions) : recognitions[k].started}

NotRecordingMeansNoSession == ~isRecording => RunningSessions = {}

OneSessionAtMost == Cardinality(RunningSessions) <= 1

\* the step is an onend that handed its transcript to onTranscript
TranscriptDelivered ==
    /\ Len(recognitions') < Len(recognitions)
    /\ notes' # notes

\* a transcript is delivered only while the button shows a recording
DeliveredWhileRecording == TranscriptDelivered => isRecording

\* C26: whenever isRecording is false no recognition started by the
\* component is still running, so one recognition at most runs at any time,
\* and no transcript is handed to onTranscript while the button shows that
\* nothing is recorded (after Stop).
C26_DisplayMatchesSessions ==
    /\ [](NotRecordingMeansNoSession /\ OneSessionAtMost)
    /\ [][DeliveredWhileRecording]_vars

====
